---- MODULE Spec2Model ----
(***************************************************************************)
(* Bounded collection stubs and allocator shim of the verification         *)
(* runtime:                                                                *)
(*   - the growable array of library/rmc/stubs/C/vec/vec.c,                *)
(*   - the PoC growable array of library/rmc/rmc_stub.c,                   *)
(*   - the narrow (16-bit) hash set of library/rmc/stubs/C/hashset/hashset.c*)
(*   - the wide (capped 32-bit) hash set of library/rmc/rmc_stub.c,        *)
(*   - the allocator shim of library/kani/kani_lib.c.                      *)
(*                                                                         *)
(* Numbers are scaled: TLC's integers cannot hold size_t, so size_t is     *)
(* SizeBits wide, the 16-bit key is KeyBits wide, and the allocation       *)
(* ceiling and default capacity are small.  The scaled values keep the     *)
(* order relations of the source (ceiling * 4 < 2^SizeBits, default        *)
(* capacity below the ceiling); arithmetic wraps modulo 2^SizeBits as      *)
(* size_t arithmetic does.                                                 *)
(*                                                                         *)
(* In the collection stubs allocation (malloc, calloc, realloc) is taken   *)
(* to succeed, as under the model checker the stubs are written for; in    *)
(* the shim, which tests the result of malloc, it may fail.  assert()      *)
(* aborts.  An access outside an allocation is undefined behaviour: the    *)
(* operation ends with status "ub", which stands for every outcome a build *)
(* can produce, any value it reads is arbitrary, and nothing is modelled   *)
(* after it.                                                               *)
(***************************************************************************)
EXTENDS Integers, Sequences, FiniteSets, TLC

VARIABLES vecs, status, ret, last, pure, plog, steps,
          set, sstatus, sret, slast, members,
          heap, astatus, alast, asteps,
          call

vecVars == <<vecs, status, ret, last, pure, plog, steps>>
setVars == <<set, sstatus, sret, slast, members>>
allocVars == <<heap, astatus, alast, asteps>>
vars == <<vecs, status, ret, last, pure, plog, steps,
          set, sstatus, sret, slast, members,
          heap, astatus, alast, asteps,
          call>>

(***************************************************************************)
(* Bounds of the model.                                                    *)
(***************************************************************************)
\* width of size_t in the model (64 in the source's target)
SizeBits == 6
\* scaled stand-in for MAX_MALLOC_SIZE (vec.c:21), in the unit the code
\* compares it with: a number of elements
MAX_MALLOC_SIZE == 8
\* scaled stand-in for DEFAULT_CAPACITY (vec.c:20), in bytes
DEFAULT_CAPACITY == 16
\* element values are 0..MaxElem
MaxElem == 1
\* capacities handed to vec_with_capacity are 0..MaxInitCap (and one above
\* the ceiling)
MaxInitCap == 1
\* number of array operations in a run
MaxOps == 6

\* width of the narrow hash set's key, uint16_t (16 in the source)
KeyBits == 4
\* width of the wide hash set's key, uint32_t (32 in the source)
StubKeyBits == 4
\* scaled stand-in for the 4096 slots of the wide hash set (rmc_stub.c:167)
STUB_DOMAIN == 4

\* sizeof(uint32_t), the element type of vec.mem
ElemSize == 4
\* hashset.c: const int16_t SENTINEL = 1
SENTINEL == 1
\* kani_lib.c: allocations made in one run
MaxHandles == 2
\* kani_lib.c: calls of the shim in one run
MaxAllocOps == 2
\* kani_lib.c: sizes passed to the shim are 0..MaxSize
MaxSize == 2
\* kani_lib.c: alignments passed to the shim are 0..MaxAlign
MaxAlign == 3
\* kani_lib.c: the null pointer
NULL == 0
\* rmc_stub.c: MAX_MALLOC_SIZE (4096), the capacity vec_new gives
STUB_MAX_MALLOC_SIZE == 4
\* rmc_stub.c: const SENTINEL = -1
STUB_SENTINEL == -1

RECURSIVE Pow2(_)
Pow2(n) == IF n = 0 THEN 1 ELSE 2 * Pow2(n - 1)

SIZE_MOD == Pow2(SizeBits)
Elem == 0..MaxElem
\* two arrays, so that one can be appended to the other
VecIds == {1, 2}
\* content of a slot that was allocated and never written
Undef == 0 - 1
\* no value returned
NoRet == 0 - 2

(***************************************************************************)
(* vec.c: the growable array.  A vec is (mem, len, capacity); mem is the   *)
(* allocation, a sequence of slots (slot i of the C array is mem[i+1]),    *)
(* and ptr is the value of the pointer v->mem: 0 is null, malloc gives     *)
(* block 1 of the array and every realloc is taken to move it, to the next *)
(* block.                                                                  *)
(***************************************************************************)
NoVec == [alive |-> FALSE, ptr |-> 0, mem |-> <<>>, len |-> 0, capacity |-> 0]

\* malloc(n * sizeof(uint32_t)): n slots of indeterminate content
malloc_mem(n) == [i \in 1..n |-> Undef]

\* mutant: a fresh allocation, the old content not copied
realloc_mem_nocopy(mem, n) == [i \in 1..n |-> Undef]

\* realloc(mem, n * sizeof(uint32_t)): the first min(old, n) slots kept
realloc_mem(mem, n) == [i \in 1..n |-> IF i <= Len(mem) THEN mem[i] ELSE Undef]

\* the byte count capacity * sizeof(*v->mem) handed to malloc and realloc
alloc_bytes(capacity) == (capacity * ElemSize) % SIZE_MOD

Done(v, st, grows) == [v |-> v, st |-> st, grows |-> grows]

vec_grow(v) ==
    LET new_cap == (v.capacity * 2) % SIZE_MOD
    IN  IF new_cap > MAX_MALLOC_SIZE
        THEN Done(v, "fatal", <<>>)
        ELSE Done([v EXCEPT !.ptr = @ + 1, !.mem = realloc_mem(v.mem, new_cap),
                            !.capacity = new_cap], "ok", <<>>)

\* mutant: the capacity is doubled whatever is asked for
vec_sized_grow_double(v, additional) ==
    LET new_cap == (v.capacity * 2) % SIZE_MOD
    IN  IF new_cap > MAX_MALLOC_SIZE
        THEN Done(v, "fatal", <<>>)
        ELSE Done([v EXCEPT !.ptr = @ + 1, !.mem = realloc_mem(v.mem, new_cap),
                            !.capacity = new_cap],
                  "ok",
                  <<[old |-> v.capacity, add |-> additional, new |-> new_cap]>>)

\* mutant: the new capacity is not compared with MAX_MALLOC_SIZE
vec_sized_grow_unchecked(v, additional) ==
    LET min_cap == (v.capacity + additional) % SIZE_MOD
        grow_cap == (v.capacity * 2) % SIZE_MOD
        new_cap == IF min_cap > grow_cap THEN min_cap ELSE grow_cap
    IN  Done([v EXCEPT !.ptr = @ + 1, !.mem = realloc_mem(v.mem, new_cap),
                       !.capacity = new_cap],
             "ok",
             <<[old |-> v.capacity, add |-> additional, new |-> new_cap]>>)

vec_sized_grow(v, additional) ==
    LET min_cap == (v.capacity + additional) % SIZE_MOD
        grow_cap == (v.capacity * 2) % SIZE_MOD
        new_cap == IF min_cap > grow_cap THEN min_cap ELSE grow_cap
    IN  IF new_cap > MAX_MALLOC_SIZE
        THEN Done(v, "fatal", <<>>)
        ELSE Done([v EXCEPT !.ptr = @ + 1, !.mem = realloc_mem(v.mem, new_cap),
                            !.capacity = new_cap],
                  "ok",
                  <<[old |-> v.capacity, add |-> additional, new |-> new_cap]>>)

vec_new ==
    LET max_elements == DEFAULT_CAPACITY \div ElemSize
    IN  Done([alive |-> TRUE, ptr |-> 1, mem |-> malloc_mem(max_elements), len |-> 0,
              capacity |-> max_elements], "ok", <<>>)

vec_with_capacity(capacity) ==
    IF capacity > MAX_MALLOC_SIZE
    THEN Done(NoVec, "fatal", <<>>)
    ELSE Done([alive |-> TRUE, ptr |-> 1, mem |-> malloc_mem(capacity), len |-> 0,
               capacity |-> capacity], "ok", <<>>)

vec_push(v, elem) ==
    LET g == IF v.len = v.capacity THEN vec_sized_grow(v, 1) ELSE Done(v, "ok", <<>>)
        w == g.v
    IN  IF g.st # "ok" THEN g
        ELSE IF w.len < Len(w.mem)
        THEN Done([w EXCEPT !.mem[w.len + 1] = elem,
                            !.len = (w.len + 1) % SIZE_MOD], "ok", g.grows)
        \* v->mem[v->len] lies outside the allocation
        ELSE Done([w EXCEPT !.len = (w.len + 1) % SIZE_MOD], "ub", g.grows)

\* mutant: the allocation is shrunk to the elements that remain
vec_pop_shrink(v) ==
    IF ~(v.len > 0)
    THEN [v |-> v, st |-> "assert", val |-> NoRet]
    ELSE LET n == v.len - 1
             w == [v EXCEPT !.len = n, !.capacity = n, !.ptr = @ + 1,
                            !.mem = realloc_mem(v.mem, n)]
         IN  IF n < Len(v.mem)
             THEN [v |-> w, st |-> "ok", val |-> v.mem[n + 1]]
             ELSE [v |-> w, st |-> "ub", val |-> Undef]

\* the value vec_pop returns is r.val; Undef: an indeterminate value was read
vec_pop(v) ==
    IF ~(v.len > 0)
    THEN [v |-> v, st |-> "assert", val |-> NoRet]
    ELSE LET n == v.len - 1
             w == [v EXCEPT !.len = n]
         IN  IF n < Len(v.mem)
             THEN [v |-> w, st |-> "ok", val |-> v.mem[n + 1]]
             ELSE [v |-> w, st |-> "ub", val |-> Undef]

RECURSIVE append_loop(_, _, _)
append_loop(acc, v2, i) ==
    IF acc.st # "ok" \/ ~(i < v2.len) THEN acc
    ELSE IF ~(i < Len(v2.mem))
    \* v2->mem[i] lies outside v2's allocation
    THEN Done(acc.v, "ub", acc.grows)
    ELSE LET p == vec_push(acc.v, v2.mem[i + 1])
         IN  append_loop(Done(p.v, p.st, acc.grows \o p.grows), v2, i + 1)

vec_append(v1, v2) ==
    LET g == vec_sized_grow(v1, v2.len)
        l == append_loop(g, v2, 0)
    IN  IF l.st # "ok" THEN l
        ELSE Done([l.v EXCEPT !.len = (l.v.len + v2.len) % SIZE_MOD], "ok", l.grows)

vec_len(v) == v.len

vec_cap(v) == v.capacity

(***************************************************************************)
(* The array operations as steps.  last is the last operation, with the    *)
(* arrays it found; pure[i] says array i has only been       *)
(* pushed to since it was created, and plog[i] is what was pushed.         *)
(***************************************************************************)
OpRec(op, i, j, arg, grows) ==
    [op |-> op, v |-> i, w |-> j, arg |-> arg, pre |-> vecs[i],
     prew |-> IF j = 0 THEN NoVec ELSE vecs[j], grows |-> grows]

NoOp == [op |-> "none", v |-> 0, w |-> 0, arg |-> NoRet, pre |-> NoVec,
         prew |-> NoVec, grows |-> <<>>]

Record(r) == last' = r

Running == status = "ok" /\ steps < MaxOps

Create(i, r) ==
    /\ Running
    /\ ~vecs[i].alive
    /\ vecs' = [vecs EXCEPT ![i] = r.v]
    /\ status' = r.st
    /\ ret' = NoRet
    /\ pure' = [pure EXCEPT ![i] = (r.st = "ok")]
    /\ plog' = [plog EXCEPT ![i] = <<>>]
    /\ steps' = steps + 1
    /\ UNCHANGED <<setVars, allocVars, call>>

VecNew(i) ==
    /\ Create(i, vec_new)
    /\ Record(OpRec("new", i, 0, NoRet, <<>>))

VecWithCapacity(i, n) ==
    /\ Create(i, vec_with_capacity(n))
    /\ Record(OpRec("with_capacity", i, 0, n, <<>>))

VecPush(i, e) ==
    /\ Running
    /\ vecs[i].alive
    /\ LET r == vec_push(vecs[i], e)
       IN  /\ vecs' = [vecs EXCEPT ![i] = r.v]
           /\ status' = r.st
           /\ plog' = [plog EXCEPT ![i] = IF pure[i] /\ r.st # "fatal"
                                          THEN Append(@, e) ELSE @]
           /\ pure' = [pure EXCEPT ![i] = @ /\ r.st # "fatal"]
           /\ Record(OpRec("push", i, 0, e, r.grows))
    /\ ret' = NoRet
    /\ steps' = steps + 1
    /\ UNCHANGED <<setVars, allocVars, call>>

VecPop(i) ==
    /\ Running
    /\ vecs[i].alive
    /\ LET r == vec_pop(vecs[i])
       IN  /\ vecs' = [vecs EXCEPT ![i] = r.v]
           /\ status' = r.st
           /\ IF r.val = Undef
              THEN \E x \in Elem : ret' = x
              ELSE ret' = r.val
    /\ pure' = [pure EXCEPT ![i] = FALSE]
    /\ Record(OpRec("pop", i, 0, NoRet, <<>>))
    /\ steps' = steps + 1
    /\ UNCHANGED <<plog, setVars, allocVars, call>>

VecAppend(i, j) ==
    /\ Running
    /\ i # j
    /\ vecs[i].alive /\ vecs[j].alive
    /\ LET r == vec_append(vecs[i], vecs[j])
       IN  /\ vecs' = [vecs EXCEPT ![i] = r.v]
           /\ status' = r.st
           /\ Record(OpRec("append", i, j, NoRet, r.grows))
    /\ ret' = NoRet
    /\ pure' = [pure EXCEPT ![i] = FALSE]
    /\ steps' = steps + 1
    /\ UNCHANGED <<plog, setVars, allocVars, call>>

VecGrow(i) ==
    /\ Running
    /\ vecs[i].alive
    /\ LET r == vec_grow(vecs[i])
       IN  /\ vecs' = [vecs EXCEPT ![i] = r.v]
           /\ status' = r.st
    /\ ret' = NoRet
    /\ pure' = [pure EXCEPT ![i] = FALSE]
    /\ Record(OpRec("grow", i, 0, NoRet, <<>>))
    /\ steps' = steps + 1
    /\ UNCHANGED <<plog, setVars, allocVars, call>>

VecLen(i) ==
    /\ Running
    /\ vecs[i].alive
    /\ ret' = vec_len(vecs[i])
    /\ Record(OpRec("len", i, 0, NoRet, <<>>))
    /\ steps' = steps + 1
    /\ UNCHANGED <<vecs, status, pure, plog, setVars, allocVars, call>>

VecCap(i) ==
    /\ Running
    /\ vecs[i].alive
    /\ ret' = vec_cap(vecs[i])
    /\ Record(OpRec("cap", i, 0, NoRet, <<>>))
    /\ steps' = steps + 1
    /\ UNCHANGED <<vecs, status, pure, plog, setVars, allocVars, call>>

InitCaps == (0..MaxInitCap) \cup {MAX_MALLOC_SIZE + 1}

(***************************************************************************)
(* rmc_stub.c: the PoC growable array.  The byte counts handed to malloc   *)
(* and realloc are size_t products and wrap; the allocation holds as many  *)
(* slots as the wrapped byte count pays for.                               *)
(***************************************************************************)
stub_slots(n) == ((n * ElemSize) % SIZE_MOD) \div ElemSize

stub_vec_grow(v) ==
    LET new_cap == (v.capacity * 2) % SIZE_MOD
    IN  Done([v EXCEPT !.ptr = @ + 1, !.mem = realloc_mem(v.mem, stub_slots(new_cap)),
                       !.capacity = new_cap],
             "ok", <<[old |-> v.capacity, add |-> 0, new |-> new_cap]>>)

stub_vec_new ==
    Done([alive |-> TRUE, ptr |-> 1, mem |-> malloc_mem(stub_slots(STUB_MAX_MALLOC_SIZE)),
          len |-> 0, capacity |-> STUB_MAX_MALLOC_SIZE], "ok", <<>>)

stub_vec_with_capacity(capacity) ==
    Done([alive |-> TRUE, ptr |-> 1, mem |-> malloc_mem(stub_slots(capacity)), len |-> 0,
          capacity |-> capacity], "ok", <<>>)

stub_vec_push(v, elem) ==
    LET g == IF v.len = v.capacity THEN stub_vec_grow(v) ELSE Done(v, "ok", <<>>)
        w == g.v
    IN  IF w.len < Len(w.mem)
        THEN Done([w EXCEPT !.mem[w.len + 1] = elem,
                            !.len = (w.len + 1) % SIZE_MOD], "ok", g.grows)
        \* v->mem[v->len] lies outside the allocation
        ELSE Done([w EXCEPT !.len = (w.len + 1) % SIZE_MOD], "ub", g.grows)

stub_vec_pop(v) ==
    IF ~(v.len > 0)
    THEN [v |-> v, st |-> "assert", val |-> NoRet]
    ELSE LET n == v.len - 1
             w == [v EXCEPT !.len = n]
         IN  IF n < Len(v.mem)
             THEN [v |-> w, st |-> "ok", val |-> v.mem[n + 1]]
             ELSE [v |-> w, st |-> "ub", val |-> Undef]

RECURSIVE stub_append_loop(_, _, _)
stub_append_loop(acc, v2, i) ==
    IF acc.st # "ok" \/ ~(i < v2.len) THEN acc
    ELSE IF ~(i < Len(v2.mem))
    \* v2->mem[i] lies outside v2's allocation
    THEN Done(acc.v, "ub", acc.grows)
    ELSE LET p == stub_vec_push(acc.v, v2.mem[i + 1])
         IN  stub_append_loop(Done(p.v, p.st, acc.grows \o p.grows), v2, i + 1)

stub_vec_append(v1, v2) ==
    LET l == stub_append_loop(Done(v1, "ok", <<>>), v2, 0)
    IN  IF l.st # "ok" THEN l
        ELSE Done([l.v EXCEPT !.len = (l.v.len + v2.len) % SIZE_MOD], "ok", l.grows)

\* the PoC operations as steps, on the same variables
StubVecNew(i) ==
    /\ Create(i, stub_vec_new)
    /\ Record(OpRec("new", i, 0, NoRet, <<>>))

StubVecWithCapacity(i, n) ==
    /\ Create(i, stub_vec_with_capacity(n))
    /\ Record(OpRec("with_capacity", i, 0, n, <<>>))

StubVecStep(i, r, rec) ==
    /\ Running
    /\ vecs[i].alive
    /\ vecs' = [vecs EXCEPT ![i] = r.v]
    /\ status' = r.st
    /\ pure' = [pure EXCEPT ![i] = FALSE]
    /\ Record(rec)
    /\ steps' = steps + 1
    /\ UNCHANGED <<plog, setVars, allocVars, call>>

StubVecGrow(i) ==
    /\ StubVecStep(i, stub_vec_grow(vecs[i]),
                   OpRec("grow", i, 0, NoRet, stub_vec_grow(vecs[i]).grows))
    /\ ret' = NoRet

StubVecPush(i, e) ==
    /\ StubVecStep(i, stub_vec_push(vecs[i], e),
                   OpRec("push", i, 0, e, stub_vec_push(vecs[i], e).grows))
    /\ ret' = NoRet

StubVecPop(i) ==
    /\ StubVecStep(i, stub_vec_pop(vecs[i]), OpRec("pop", i, 0, NoRet, <<>>))
    /\ IF stub_vec_pop(vecs[i]).val = Undef
       THEN \E x \in Elem : ret' = x
       ELSE ret' = stub_vec_pop(vecs[i]).val

StubVecAppend(i, j) ==
    /\ i # j
    /\ vecs[j].alive
    /\ StubVecStep(i, stub_vec_append(vecs[i], vecs[j]),
                   OpRec("append", i, j, NoRet,
                         stub_vec_append(vecs[i], vecs[j]).grows))
    /\ ret' = NoRet

\* the capacities asked of vec_with_capacity: small ones and one whose
\* double does not fit size_t
StubInitCaps == (0..MaxInitCap) \cup {Pow2(SizeBits - 1) + 1}

(***************************************************************************)
(* hashset.c: the narrow hash set.  domain is the calloc'ed array of       *)
(* int16_t slots (slot i of the C array is domain[i+1]); every operation   *)
(* indexes it with hasher(value).                                          *)
(***************************************************************************)
UINT16_MAX == Pow2(KeyBits) - 1

\* conversion of a value to the int16_t it is stored as
ToInt16(x) ==
    LET m == x % Pow2(KeyBits)
    IN  IF m >= Pow2(KeyBits - 1) THEN m - Pow2(KeyBits) ELSE m

\* conversion of a value to the int32_t it is stored as
ToInt32(x) ==
    LET m == x % Pow2(StubKeyBits)
    IN  IF m >= Pow2(StubKeyBits - 1) THEN m - Pow2(StubKeyBits) ELSE m

NoSet == [alive |-> FALSE, kind |-> "none", domain |-> <<>>]

SetDone(domain, st, val) == [domain |-> domain, st |-> st, val |-> val]

\* s->domain[hash] is inside the allocation
InDomain(domain, hash) == hash < Len(domain)

hasher(value) == value % Pow2(KeyBits)

hashset_new ==
    [alive |-> TRUE, kind |-> "narrow",
     domain |-> [i \in 1..UINT16_MAX |-> IF i = 1 THEN SENTINEL ELSE 0]]

hashset_insert(domain, value) ==
    LET hash == hasher(value)
    IN  IF ~InDomain(domain, hash) THEN SetDone(domain, "ub", Undef)
        ELSE IF \/ (hash = 0 /\ domain[hash + 1] # SENTINEL)
                \/ (hash # 0 /\ domain[hash + 1] # 0)
        THEN SetDone(domain, "ok", 0)
        ELSE SetDone([domain EXCEPT ![hash + 1] = ToInt16(value)], "ok", 1)

hashset_contains(domain, value) ==
    LET hash == hasher(value)
    IN  IF ~InDomain(domain, hash) THEN SetDone(domain, "ub", Undef)
        ELSE IF \/ (hash = 0 /\ domain[hash + 1] # SENTINEL)
                \/ (hash # 0 /\ domain[hash + 1] # 0)
        THEN SetDone(domain, "ok", 1)
        ELSE SetDone(domain, "ok", 0)

\* mutant: the slot is reset to SENTINEL whatever its index
hashset_remove_sentinel(domain, value) ==
    LET hash == hasher(value)
    IN  IF ~InDomain(domain, hash) THEN SetDone(domain, "ub", Undef)
        ELSE IF \/ (hash = 0 /\ domain[hash + 1] = SENTINEL)
                \/ (hash # 0 /\ domain[hash + 1] = 0)
        THEN SetDone(domain, "ok", 0)
        ELSE SetDone([domain EXCEPT ![hash + 1] = SENTINEL], "ok", 1)

hashset_remove(domain, value) ==
    LET hash == hasher(value)
    IN  IF ~InDomain(domain, hash) THEN SetDone(domain, "ub", Undef)
        ELSE IF \/ (hash = 0 /\ domain[hash + 1] = SENTINEL)
                \/ (hash # 0 /\ domain[hash + 1] = 0)
        THEN SetDone(domain, "ok", 0)
        ELSE IF hash = 0
        THEN SetDone([domain EXCEPT ![hash + 1] = SENTINEL], "ok", 1)
        ELSE SetDone([domain EXCEPT ![hash + 1] = 0], "ok", 1)

(***************************************************************************)
(* rmc_stub.c: the wide hash set, STUB_DOMAIN slots of int32_t.            *)
(***************************************************************************)
stub_hasher(value) == value % Pow2(StubKeyBits)

stub_hashset_new ==
    [alive |-> TRUE, kind |-> "wide",
     domain |-> [i \in 1..STUB_DOMAIN |-> IF i = 1 THEN STUB_SENTINEL ELSE 0]]

stub_hashset_insert(domain, value) ==
    LET hash == stub_hasher(value)
    IN  IF ~InDomain(domain, hash) THEN SetDone(domain, "ub", Undef)
        ELSE IF \/ (hash = 0 /\ domain[hash + 1] # STUB_SENTINEL)
                \/ domain[hash + 1] # 0
        THEN SetDone(domain, "ok", 0)
        ELSE SetDone([domain EXCEPT ![hash + 1] = ToInt32(value)], "ok", 1)

stub_hashset_contains(domain, value) ==
    LET hash == stub_hasher(value)
    IN  IF ~InDomain(domain, hash) THEN SetDone(domain, "ub", Undef)
        ELSE IF \/ (hash = 0 /\ domain[hash + 1] # STUB_SENTINEL)
                \/ domain[hash + 1] # 0
        THEN SetDone(domain, "ok", 1)
        ELSE SetDone(domain, "ok", 0)

stub_hashset_remove(domain, value) ==
    LET hash == stub_hasher(value)
    IN  IF ~InDomain(domain, hash) THEN SetDone(domain, "ub", Undef)
        ELSE IF \/ (hash = 0 /\ domain[hash + 1] = STUB_SENTINEL)
                \/ domain[hash + 1] = 0
        THEN SetDone(domain, "ok", 0)
        ELSE IF hash = 0
        THEN SetDone([domain EXCEPT ![hash + 1] = STUB_SENTINEL], "ok", 1)
        ELSE SetDone([domain EXCEPT ![hash + 1] = 0], "ok", 1)

(***************************************************************************)
(* kani_lib.c: the allocator shim.  heap maps a handle to its block: the   *)
(* state ("unused", "live" or "freed"), the allocated size and the bytes   *)
(* (0 or Undef; byte i of the block is bytes[i+1]).  A handle is never     *)
(* given out twice.  Here malloc and calloc may return null, as the code   *)
(* provides for.  A call is a run: the heap, the violations reported, the  *)
(* events in the order they happened, and st, which is "pruned" once an    *)
(* assume has cut the path and "ub" after a use of a block that is not     *)
(* live or an access outside one.                                          *)
(***************************************************************************)
Handles == 1..MaxHandles

NoBlock == [state |-> "unused", size |-> 0, bytes |-> <<>>]

Run(h) == [heap |-> h, st |-> "ok", viol |-> <<>>, events |-> <<>>,
           result |-> NoRet]

Event(e, msg, val) == [e |-> e, msg |-> msg, val |-> val]

\* mutant: the condition is checked and not assumed
KANI_assert_only(run, cond, msg) ==
    IF run.st # "ok" THEN run
    ELSE [run EXCEPT
            !.events = @ \o <<Event("eval", msg, cond), Event("assert", msg, cond)>>,
            !.viol = IF cond THEN @ ELSE Append(@, msg)]

\* bool __KANI_temp = (cond); __CPROVER_assert(temp, msg); __CPROVER_assume(temp)
KANI_assert(run, cond, msg) ==
    IF run.st # "ok" THEN run
    ELSE [run EXCEPT
            !.events = @ \o <<Event("eval", msg, cond), Event("assert", msg, cond),
                              Event("assume", msg, cond)>>,
            !.viol = IF cond THEN @ ELSE Append(@, msg),
            !.st = IF cond THEN "ok" ELSE "pruned"]

RECURSIVE BitAnd(_, _)
BitAnd(a, b) ==
    IF a = 0 \/ b = 0 THEN 0
    ELSE (a % 2) * (b % 2) + 2 * BitAnd(a \div 2, b \div 2)

\* mutant: 0 passes as a power of two
KANI_is_power_of_two_or_zero(i) ==
    BitAnd(i, (i - 1) % SIZE_MOD) = 0

KANI_is_nonzero_power_of_two(i) ==
    (i # 0) /\ BitAnd(i, (i - 1) % SIZE_MOD) = 0

\* __CPROVER_OBJECT_SIZE(ptr), for a pointer to a block
OBJECT_SIZE(h, ptr) == h[ptr].size

\* malloc(n) giving the fresh handle fresh, or null when ok is FALSE
malloc(run, n, fresh, ok) ==
    IF run.st # "ok" THEN run
    ELSE IF ~ok
    THEN [run EXCEPT !.events = Append(@, Event("malloc", "", n)),
                     !.result = NULL]
    ELSE [run EXCEPT !.events = Append(@, Event("malloc", "", n)),
                     !.heap[fresh] = [state |-> "live", size |-> n,
                                      bytes |-> [i \in 1..n |-> Undef]],
                     !.result = fresh]

calloc(run, nmemb, size, fresh, ok) ==
    IF run.st # "ok" THEN run
    ELSE IF ~ok
    THEN [run EXCEPT !.events = Append(@, Event("calloc", "", nmemb * size)),
                     !.result = NULL]
    ELSE [run EXCEPT !.events = Append(@, Event("calloc", "", nmemb * size)),
                     !.heap[fresh] = [state |-> "live", size |-> nmemb * size,
                                      bytes |-> [i \in 1..(nmemb * size) |-> 0]],
                     !.result = fresh]

free(run, ptr) ==
    IF run.st # "ok" THEN run
    ELSE IF ptr = NULL
    THEN [run EXCEPT !.events = Append(@, Event("free", "", ptr))]
    ELSE IF run.heap[ptr].state = "live"
    THEN [run EXCEPT !.events = Append(@, Event("free", "", ptr)),
                     !.heap[ptr].state = "freed"]
    \* the block was released before
    ELSE [run EXCEPT !.events = Append(@, Event("free", "", ptr)),
                     !.st = "ub"]

memcpy(run, dst, src, n) ==
    IF run.st # "ok" THEN run
    ELSE IF /\ run.heap[dst].state = "live" /\ n <= run.heap[dst].size
            /\ run.heap[src].state = "live" /\ n <= run.heap[src].size
    THEN [run EXCEPT !.events = Append(@, Event("memcpy", "", n)),
                     !.heap[dst].bytes = [i \in 1..Len(@) |->
                         IF i <= n THEN run.heap[src].bytes[i] ELSE @[i]]]
    \* a block that is not live, or more bytes than a block holds
    ELSE [run EXCEPT !.events = Append(@, Event("memcpy", "", n)),
                     !.st = "ub"]

rust_alloc(h, size, align, fresh, ok) ==
    LET r1 == KANI_assert(Run(h), size > 0,
                  "__rust_alloc must be called with a size greater than 0")
        r2 == KANI_assert(r1, KANI_is_nonzero_power_of_two(align),
                  "Alignment is power of two")
    IN  malloc(r2, size, fresh, ok)

rust_alloc_zeroed(h, size, align, fresh, ok) ==
    LET r1 == KANI_assert(Run(h), size > 0,
                  "__rust_alloc_zeroed must be called with a size greater than 0")
        r2 == KANI_assert(r1, KANI_is_nonzero_power_of_two(align),
                  "Alignment is power of two")
    IN  calloc(r2, 1, size, fresh, ok)

\* mutant: the size is not compared with the size of the block
rust_dealloc_nosize(h, ptr, size, align) ==
    LET r1 == KANI_assert(Run(h), KANI_is_nonzero_power_of_two(align),
                  "Alignment is power of two")
    IN  free(r1, ptr)

rust_dealloc(h, ptr, size, align) ==
    LET r1 == KANI_assert(Run(h), KANI_is_nonzero_power_of_two(align),
                  "Alignment is power of two")
        r2 == KANI_assert(r1, OBJECT_SIZE(h, ptr) = size,
                  "rust_dealloc must be called on an object whose allocated size matches its layout")
    IN  free(r2, ptr)

\* mutant: the original block is released whether malloc succeeded or not
rust_realloc_release(h, ptr, old_size, align, new_size, fresh, ok) ==
    LET r1 == KANI_assert(Run(h), ptr # 0,
                  "rust_realloc must be called with a non-null pointer")
        r2 == KANI_assert(r1, new_size > 0,
                  "rust_realloc must be called with a size greater than 0")
        r3 == KANI_assert(r2, KANI_is_nonzero_power_of_two(align),
                  "Alignment is power of two")
        r4 == malloc(r3, new_size, fresh, ok)
    IN  IF r4.st = "ok" /\ r4.result # NULL
        THEN LET bytes_to_copy == IF new_size < old_size THEN new_size ELSE old_size
                 r5 == memcpy(r4, r4.result, ptr, bytes_to_copy)
             IN  free(r5, ptr)
        ELSE free(r4, ptr)

rust_realloc(h, ptr, old_size, align, new_size, fresh, ok) ==
    LET r1 == KANI_assert(Run(h), ptr # 0,
                  "rust_realloc must be called with a non-null pointer")
        r2 == KANI_assert(r1, new_size > 0,
                  "rust_realloc must be called with a size greater than 0")
        r3 == KANI_assert(r2, KANI_is_nonzero_power_of_two(align),
                  "Alignment is power of two")
        r4 == malloc(r3, new_size, fresh, ok)
    IN  IF r4.st = "ok" /\ r4.result # NULL
        THEN LET bytes_to_copy == IF new_size < old_size THEN new_size ELSE old_size
                 r5 == memcpy(r4, r4.result, ptr, bytes_to_copy)
             IN  free(r5, ptr)
        ELSE r4

(***************************************************************************)
(* The shim's operations as steps.  alast is the last call: its arguments, *)
(* the heap it found and the run it made.                                  *)
(***************************************************************************)
AllocRec(op, ptr, size, align, new_size, ok, r) ==
    [op |-> op, ptr |-> ptr, size |-> size, align |-> align,
     new_size |-> new_size, ok |-> ok, pre |-> heap, result |-> r.result,
     viol |-> r.viol, events |-> r.events]

NoAlloc ==
    [op |-> "none", ptr |-> NULL, size |-> 0, align |-> 0, new_size |-> 0,
     ok |-> TRUE, pre |-> [h \in Handles |-> NoBlock], result |-> NoRet,
     viol |-> <<>>, events |-> <<>>]

\* the handle the next successful allocation gives out
Fresh == CHOOSE h \in Handles :
            /\ heap[h].state = "unused"
            /\ \A g \in Handles : heap[g].state = "unused" => h <= g

\* the handles given out so far
Given == {h \in Handles : heap[h].state # "unused"}

AllocStep(r, rec) ==
    /\ astatus = "ok"
    /\ asteps < MaxAllocOps
    /\ asteps' = asteps + 1
    /\ heap' = r.heap
    /\ astatus' = r.st
    /\ alast' = rec
    /\ UNCHANGED <<vecVars, setVars, call>>

RustAlloc(size, align, ok) ==
    /\ Given # Handles
    /\ LET r == rust_alloc(heap, size, align, Fresh, ok)
       IN  AllocStep(r, AllocRec("alloc", NULL, size, align, 0, ok, r))

RustAllocZeroed(size, align, ok) ==
    /\ Given # Handles
    /\ LET r == rust_alloc_zeroed(heap, size, align, Fresh, ok)
       IN  AllocStep(r, AllocRec("alloc_zeroed", NULL, size, align, 0, ok, r))

RustDealloc(ptr, size, align) ==
    /\ ptr \in Given
    /\ LET r == rust_dealloc(heap, ptr, size, align)
       IN  AllocStep(r, AllocRec("dealloc", ptr, size, align, 0, TRUE, r))

RustRealloc(ptr, old_size, align, new_size, ok) ==
    /\ Given # Handles
    /\ ptr \in Given \cup {NULL}
    /\ LET r == rust_realloc(heap, ptr, old_size, align, new_size, Fresh, ok)
       IN  AllocStep(r, AllocRec("realloc", ptr, old_size, align, new_size, ok, r))

Sizes == 0..MaxSize
Aligns == 0..MaxAlign

(***************************************************************************)
(* The hash set operations as steps.  slast is the last operation with the *)
(* domain it found; members is the set of values inserted and not removed  *)
(* since.  An operation that indexes outside the domain returns an         *)
(* arbitrary result.                                                       *)
(***************************************************************************)
\* the keys the operations are called with: the boundaries of the key range
Keys == {0, 1, 2, Pow2(KeyBits - 1) - 1, Pow2(KeyBits - 1), UINT16_MAX - 1, UINT16_MAX}

StubKeys == {0, 1, 2, STUB_DOMAIN - 1, STUB_DOMAIN, Pow2(StubKeyBits) - 1}

NoSetOp == [op |-> "none", value |-> NoRet, pre |-> <<>>, premem |-> {}]

SetOpRec(op, value) == [op |-> op, value |-> value, pre |-> set.domain, premem |-> members]

SetNew(s) ==
    /\ ~set.alive
    /\ sstatus = "ok"
    /\ set' = s
    /\ sret' = NoRet
    /\ slast' = SetOpRec("new", NoRet)
    /\ UNCHANGED <<sstatus, members, vecVars, allocVars, call>>

SetOp(kind, op, value, r) ==
    /\ set.alive
    /\ set.kind = kind
    /\ sstatus = "ok"
    /\ set' = [set EXCEPT !.domain = r.domain]
    /\ sstatus' = r.st
    /\ IF r.val = Undef THEN \E x \in {0, 1} : sret' = x ELSE sret' = r.val
    /\ slast' = SetOpRec(op, value)
    /\ members' = CASE op = "insert" -> members \cup {value}
                    [] op = "remove" -> members \ {value}
                    [] OTHER -> members
    /\ UNCHANGED <<vecVars, allocVars, call>>

HashsetNew == SetNew(hashset_new)

HashsetInsert(v) == SetOp("narrow", "insert", v, hashset_insert(set.domain, v))

HashsetContains(v) == SetOp("narrow", "contains", v, hashset_contains(set.domain, v))

HashsetRemove(v) == SetOp("narrow", "remove", v, hashset_remove(set.domain, v))

StubHashsetNew == SetNew(stub_hashset_new)

StubHashsetInsert(v) == SetOp("wide", "insert", v, stub_hashset_insert(set.domain, v))

StubHashsetContains(v) == SetOp("wide", "contains", v, stub_hashset_contains(set.domain, v))

StubHashsetRemove(v) == SetOp("wide", "remove", v, stub_hashset_remove(set.domain, v))

SetIdle ==
    /\ set = NoSet
    /\ sstatus = "ok"
    /\ sret = NoRet
    /\ slast = NoSetOp
    /\ members = {}

VecIdle ==
    /\ vecs = [i \in VecIds |-> NoVec]
    /\ status = "ok"
    /\ ret = NoRet
    /\ last = NoOp
    /\ pure = [i \in VecIds |-> FALSE]
    /\ plog = [i \in VecIds |-> <<>>]
    /\ steps = 0

AllocIdle ==
    /\ heap = [h \in Handles |-> NoBlock]
    /\ astatus = "ok"
    /\ alast = NoAlloc
    /\ asteps = 0

(***************************************************************************)
(* Functions applied to arguments of the whole size_t range: call is the   *)
(* last application, its arguments and what it gave.                       *)
(***************************************************************************)
NoCall == [f |-> "none", arg |-> <<>>, out |-> <<>>]

SizeT == 0..(SIZE_MOD - 1)

\* __KANI_is_nonzero_power_of_two(i), for every size_t i
IsNonzeroPowerOfTwo(i) ==
    /\ call = NoCall
    /\ call' = [f |-> "is_nonzero_power_of_two", arg |-> <<i>>,
                out |-> KANI_is_nonzero_power_of_two(i)]
    /\ UNCHANGED <<vecVars, setVars, allocVars>>

\* vec_sized_grow(v, additional) on an empty array of a capacity the ceiling
\* admits, for every size_t additional
SizedGrow(capacity, additional) ==
    /\ call = NoCall
    /\ call' = [f |-> "vec_sized_grow", arg |-> <<capacity, additional>>,
                out |-> vec_sized_grow(vec_with_capacity(capacity).v, additional)]
    /\ UNCHANGED <<vecVars, setVars, allocVars>>

CallIdle == call = NoCall

Init == VecIdle /\ SetIdle /\ AllocIdle /\ CallIdle

\* the growable array
Next ==
    \/ \E i \in VecIds : VecNew(i)
    \/ \E i \in VecIds, n \in InitCaps : VecWithCapacity(i, n)
    \/ \E i \in VecIds, e \in Elem : VecPush(i, e)
    \/ \E i \in VecIds : VecPop(i)
    \/ \E i \in VecIds, j \in VecIds : VecAppend(i, j)
    \/ \E i \in VecIds : VecGrow(i)
    \/ \E i \in VecIds : VecLen(i)
    \/ \E i \in VecIds : VecCap(i)

Spec == Init /\ [][Next]_vars

\* the two hash sets
NextSet ==
    \/ HashsetNew
    \/ \E v \in Keys : HashsetInsert(v)
    \/ \E v \in Keys : HashsetContains(v)
    \/ \E v \in Keys : HashsetRemove(v)
    \/ StubHashsetNew
    \/ \E v \in StubKeys : StubHashsetInsert(v)
    \/ \E v \in StubKeys : StubHashsetContains(v)
    \/ \E v \in StubKeys : StubHashsetRemove(v)

SpecSet == Init /\ [][NextSet]_vars

\* the PoC growable array
NextStub ==
    \/ \E i \in VecIds : StubVecNew(i)
    \/ \E i \in VecIds, n \in StubInitCaps : StubVecWithCapacity(i, n)
    \/ \E i \in VecIds, e \in Elem : StubVecPush(i, e)
    \/ \E i \in VecIds : StubVecPop(i)
    \/ \E i \in VecIds, j \in VecIds : StubVecAppend(i, j)
    \/ \E i \in VecIds : StubVecGrow(i)

SpecStub == Init /\ [][NextStub]_vars

\* the allocator shim
NextAlloc ==
    \/ \E size \in Sizes, align \in Aligns, ok \in BOOLEAN :
          RustAlloc(size, align, ok)
    \/ \E size \in Sizes, align \in Aligns, ok \in BOOLEAN :
          RustAllocZeroed(size, align, ok)
    \/ \E ptr \in Handles, size \in Sizes, align \in Aligns :
          RustDealloc(ptr, size, align)
    \/ \E ptr \in Handles \cup {NULL}, old_size \in Sizes, align \in Aligns,
          new_size \in Sizes, ok \in BOOLEAN :
          RustRealloc(ptr, old_size, align, new_size, ok)

SpecAlloc == Init /\ [][NextAlloc]_vars

\* functions on the whole size_t range
NextCall ==
    \/ \E i \in SizeT : IsNonzeroPowerOfTwo(i)
    \/ \E capacity \in 0..MAX_MALLOC_SIZE, additional \in SizeT :
          SizedGrow(capacity, additional)

SpecCall == Init /\ [][NextCall]_vars

(***************************************************************************)
(* Claims about the growable array (vec.c), under Spec.                    *)
(***************************************************************************)
Max(a, b) == IF a > b THEN a ELSE b

\* the first n slots of two allocations hold the same values
SamePrefix(m1, m2, n) ==
    \A k \in 1..n : k <= Len(m1) /\ k <= Len(m2) /\ m1[k] = m2[k]

\* C1: after any sequence of vec_new / vec_with_capacity, vec_push, vec_pop
\* (len > 0) and vec_append on distinct arrays that does not hit the ceiling,
\* every array has len <= capacity.
C1_LenLeCapacity ==
    status = "ok" =>
        \A i \in VecIds : vecs[i].alive => vecs[i].len <= vecs[i].capacity

\* C2: vec_append(a, b) on distinct arrays leaves vec_len(a) equal to
\* len_before(a) + len_before(b), ceiling not hit.
C2_AppendLength ==
    (last.op = "append" /\ status = "ok") =>
        vec_len(vecs[last.v]) = last.pre.len + last.prew.len

\* C3: an array created empty and only pushed to since (ceiling not hit) has
\* len equal to the number of pushes, holds the i-th pushed value in slot
\* i-1, and has capacity >= len.
C3_PushSequence ==
    \A i \in VecIds :
        (vecs[i].alive /\ pure[i]) =>
            /\ vec_len(vecs[i]) = Len(plog[i])
            /\ vec_cap(vecs[i]) >= vec_len(vecs[i])
            /\ SamePrefix(vecs[i].mem, plog[i], Len(plog[i]))

\* C3 witness: a third or later push of an only-pushed array made it grow.
C3_Witness ==
    /\ status = "ok"
    /\ last.op = "push"
    /\ last.grows # <<>>
    /\ pure[last.v]
    /\ Len(plog[last.v]) >= 3

\* C4: vec_push(a, v) followed by vec_pop(a) returns v and leaves a with the
\* length and the elements 0..len-1 it had before the push, for any array
\* below the ceiling, grown by the push or not.
C4_PopInvertsPush ==
    (last.op = "push" /\ status # "fatal") =>
        /\ status = "ok"
        /\ LET r == vec_pop(vecs[last.v])
           IN  /\ r.st = "ok"
               /\ r.val = last.arg
               /\ r.v.len = last.pre.len
               /\ SamePrefix(r.v.mem, last.pre.mem, last.pre.len)

SetOk(domain, val) == SetDone(domain, "ok", val)

\* C6: narrow set: for every key v, 0 included, on a fresh set
\* hashset_insert(v) returns 1, hashset_contains(v) then returns 1,
\* hashset_remove(v) then returns 1 and hashset_contains(v) then returns 0.
C6_InsertContainsRemove ==
    (set.kind = "narrow" /\ slast.op = "insert" /\ slast.pre = hashset_new.domain) =>
        /\ sstatus = "ok"
        /\ sret = 1
        /\ hashset_contains(set.domain, slast.value) = SetOk(set.domain, 1)
        /\ LET r == hashset_remove(set.domain, slast.value)
           IN  /\ r.st = "ok"
               /\ r.val = 1
               /\ hashset_contains(r.domain, slast.value) = SetOk(r.domain, 0)

\* C7: wide set: a fresh set does not contain 0, hashset_insert(0) returns 1,
\* hashset_contains(0) is then 1, hashset_remove(0) returns 1 and
\* hashset_contains(0) is then 0.
C7_StubZero ==
    /\ (set.kind = "wide" /\ slast.op = "contains" /\ slast.value = 0
          /\ slast.pre = stub_hashset_new.domain) => sret = 0
    /\ (set.kind = "wide" /\ slast.op = "insert" /\ slast.value = 0
          /\ slast.pre = stub_hashset_new.domain) =>
          /\ sret = 1
          /\ stub_hashset_contains(set.domain, 0) = SetOk(set.domain, 1)
          /\ LET r == stub_hashset_remove(set.domain, 0)
             IN  /\ r.st = "ok"
                 /\ r.val = 1
                 /\ stub_hashset_contains(r.domain, 0) = SetOk(r.domain, 0)

\* C8: narrow set: for every key v of the key width, the index hasher(v)
\* that insert, contains and remove use lies inside the array hashset_new
\* allocated.
C8_IndexInDomain ==
    (set.alive /\ set.kind = "narrow") =>
        /\ \A v \in 0..UINT16_MAX : InDomain(set.domain, hasher(v))
        /\ sstatus # "ub"

\* C9: both sets: hashset_insert of a value already present returns 0,
\* hashset_remove of an absent value returns 0, and these and every
\* hashset_contains leave every slot of the domain array as it was.
C9_NoOpUnchanged ==
    sstatus = "ok" =>
        /\ (slast.op = "insert" /\ slast.value \in slast.premem) => sret = 0
        /\ (slast.op = "remove" /\ slast.value \notin slast.premem) => sret = 0
        /\ ((slast.op \in {"insert", "remove"} /\ sret = 0) \/ slast.op = "contains") =>
              set.domain = slast.pre

\* C9 witness: an insert of a present value and a remove of an absent one
\* have returned 0 (the boundary value 0 of the narrow set among them).
C9_Witness ==
    /\ sstatus = "ok"
    /\ set.kind = "narrow"
    /\ slast.op = "insert"
    /\ slast.value = 0
    /\ 0 \in slast.premem
    /\ sret = 0

\* C10: narrow set: after any sequence of inserts and removes on a fresh set,
\* contains(v) is 1 exactly when v was inserted and not removed since, insert
\* returns 1 exactly when v was absent, remove returns 1 exactly when v was
\* present, and an operation on v leaves the membership of every other key
\* as it was.
C10_MathematicalSet ==
    (set.kind = "narrow" /\ slast.op \in {"insert", "contains", "remove"}) =>
        /\ sstatus = "ok"
        /\ slast.op = "insert" => sret = (IF slast.value \in slast.premem THEN 0 ELSE 1)
        /\ slast.op = "remove" => sret = (IF slast.value \in slast.premem THEN 1 ELSE 0)
        /\ slast.op = "contains" => sret = (IF slast.value \in members THEN 1 ELSE 0)
        /\ \A w \in 0..UINT16_MAX :
              /\ hashset_contains(set.domain, w) =
                    SetOk(set.domain, IF w \in members THEN 1 ELSE 0)
              /\ w # slast.value =>
                    hashset_contains(set.domain, w).val =
                    hashset_contains(slast.pre, w).val

(***************************************************************************)
(* vec.c: ceiling, growth and order.                                       *)
(***************************************************************************)
\* C14: when the capacity a grow computes, or the capacity asked of
\* vec_with_capacity, exceeds MAX_MALLOC_SIZE the operation is fatal and the
\* array is left as it was; so the capacity of every array is at most
\* MAX_MALLOC_SIZE in every reachable state.
C14_Ceiling ==
    /\ \A i \in VecIds : vecs[i].alive => vecs[i].capacity <= MAX_MALLOC_SIZE
    /\ (last.op = "with_capacity" /\ last.arg > MAX_MALLOC_SIZE) =>
          (status = "fatal" /\ ~vecs[last.v].alive)
    /\ (last.op = "grow" /\ 2 * last.pre.capacity > MAX_MALLOC_SIZE) =>
          (status = "fatal" /\ vecs[last.v] = last.pre)
    /\ (last.op = "push" /\ last.pre.len = last.pre.capacity
          /\ Max(2 * last.pre.capacity, last.pre.capacity + 1) > MAX_MALLOC_SIZE) =>
          (status = "fatal" /\ vecs[last.v] = last.pre)
    /\ (last.op = "append"
          /\ Max(2 * last.pre.capacity, last.pre.capacity + last.prew.len)
                > MAX_MALLOC_SIZE) =>
          (status = "fatal" /\ vecs[last.v] = last.pre)

\* C14 witness: a grow of an array that has a capacity was fatal.
C14_Witness ==
    /\ status = "fatal"
    /\ last.op \in {"grow", "push", "append"}
    /\ last.pre.capacity > 0
    /\ vecs[last.v] = last.pre

\* C17: vec_pop of an empty array stops at the failed assertion with the
\* array untouched and nothing returned; vec_pop of a non-empty array takes
\* exactly one off len and returns the element that was last.
C17_PopPrecondition ==
    (last.op = "pop") =>
        IF last.pre.len = 0
        THEN status = "assert" /\ vecs[last.v] = last.pre /\ ret = NoRet
        ELSE /\ status = "ok"
             /\ vecs[last.v].len = last.pre.len - 1
             /\ last.pre.len <= Len(last.pre.mem)
             /\ (last.pre.mem[last.pre.len] # Undef =>
                   ret = last.pre.mem[last.pre.len])

\* C18: after vec_append(a, b) that is not fatal, the slots 0 .. la-1 of a
\* are as before, the slots la .. la+lb-1 hold the elements of b in order,
\* and b is as before.
C18_AppendOrder ==
    (last.op = "append" /\ status # "fatal") =>
        /\ status = "ok"
        /\ SamePrefix(vecs[last.v].mem, last.pre.mem, last.pre.len)
        /\ \A k \in 1..last.prew.len :
              /\ k <= Len(last.prew.mem)
              /\ last.pre.len + k <= Len(vecs[last.v].mem)
              /\ vecs[last.v].mem[last.pre.len + k] = last.prew.mem[k]
        /\ vecs[last.w] = last.prew

\* C24: vec_pop, vec_len, vec_cap and a vec_push that finds len < capacity
\* leave the mem pointer and the capacity as they were, and such a vec_push
\* changes slot len and len only.
C24_PointerFrame ==
    /\ (last.op \in {"pop", "len", "cap"}) =>
          /\ vecs[last.v].ptr = last.pre.ptr
          /\ vecs[last.v].capacity = last.pre.capacity
    /\ (last.op = "push" /\ last.pre.len < last.pre.capacity) =>
          /\ status = "ok"
          /\ vecs[last.v].ptr = last.pre.ptr
          /\ vecs[last.v].capacity = last.pre.capacity
          /\ vecs[last.v].len = last.pre.len + 1
          /\ Len(vecs[last.v].mem) = Len(last.pre.mem)
          /\ \A k \in 1..Len(last.pre.mem) :
                k # last.pre.len + 1 => vecs[last.v].mem[k] = last.pre.mem[k]
          /\ last.grows = <<>>

\* C24 witness: a vec_pop, after the array had been grown once, returned
\* the element pushed last.
C24_Witness ==
    /\ last.op = "pop"
    /\ status = "ok"
    /\ last.pre.ptr > 1
    /\ last.pre.len > 1
    /\ vecs[last.v].ptr = last.pre.ptr

\* C25: every request vec.c makes of malloc or realloc in an operation that
\* is not fatal is of at most MAX_MALLOC_SIZE bytes (the request of vec_new
\* is the constant DEFAULT_CAPACITY and is left out).
C25_AllocBytes ==
    (status # "fatal") =>
        /\ (last.op = "with_capacity") => alloc_bytes(last.arg) <= MAX_MALLOC_SIZE
        /\ (last.op = "grow") =>
              alloc_bytes(vecs[last.v].capacity) <= MAX_MALLOC_SIZE
        /\ \A k \in 1..Len(last.grows) :
              alloc_bytes(last.grows[k].new) <= MAX_MALLOC_SIZE

\* C28: a vec_append(a, b) with len(a) + len(b) <= capacity(a) is not fatal
\* and leaves the capacity and the mem pointer of a as they were.
C28_AppendGrowsWhenNeeded ==
    (last.op = "append" /\ last.pre.len + last.prew.len <= last.pre.capacity) =>
        /\ status # "fatal"
        /\ vecs[last.v].capacity = last.pre.capacity
        /\ vecs[last.v].ptr = last.pre.ptr

(***************************************************************************)
(* Claims about the encoding of the narrow hash set, under SpecSet.        *)
(***************************************************************************)
\* C20: in every state of a narrow set reached without undefined behaviour,
\* slot 0 holds SENTINEL (0 absent) or 0 (0 present) and every slot i # 0
\* holds 0 (i absent) or a value numerically equal to i (i present).
C20_Encoding ==
    (set.alive /\ set.kind = "narrow" /\ sstatus = "ok") =>
        /\ set.domain[1] \in {SENTINEL, 0}
        /\ \A i \in 1..(Len(set.domain) - 1) : set.domain[i + 1] \in {0, i}

(***************************************************************************)
(* Claims about the PoC growable array (rmc_stub.c), under SpecStub.       *)
(***************************************************************************)
\* C15: one vec_append(a, b) grows a at most once, whatever the length of b
\* and the length and capacity of a.
C15_AppendOneGrow ==
    (last.op = "append") => Len(last.grows) <= 1

\* C16: the capacity of an array never decreases, whatever operation (push,
\* pop, append, grow) is applied to it.
C16_CapacityMonotone ==
    [][\A i \in VecIds :
          vecs[i].alive => vecs'[i].capacity >= vecs[i].capacity]_vars

(***************************************************************************)
(* Claims about the allocator shim (kani_lib.c), under SpecAlloc.          *)
(***************************************************************************)
IsPow2(x) == \E k \in 0..(SizeBits - 1) : x = Pow2(k)

HasEvent(e) == \E k \in 1..Len(alast.events) : alast.events[k].e = e

AllocatorCalls == {"malloc", "calloc", "free", "memcpy"}

\* C11: __rust_dealloc of a live handle with a size that is not the size of
\* its block reports a violation and does not reach free, the handle stays
\* live; with the size of the block and a power-of-two alignment the handle
\* is released and no violation is reported.
C11_DeallocSize ==
    (alast.op = "dealloc" /\ alast.pre[alast.ptr].state = "live") =>
        /\ (alast.size # alast.pre[alast.ptr].size) =>
              /\ alast.viol # <<>>
              /\ astatus = "pruned"
              /\ ~HasEvent("free")
              /\ heap = alast.pre
        /\ (alast.size = alast.pre[alast.ptr].size /\ IsPow2(alast.align)) =>
              /\ alast.viol = <<>>
              /\ astatus = "ok"
              /\ heap[alast.ptr].state = "freed"
              /\ \A h \in Handles \ {alast.ptr} : heap[h] = alast.pre[h]

\* C11 witness: a live handle was passed with a wrong size and a valid
\* alignment.
C11_Witness ==
    /\ alast.op = "dealloc"
    /\ alast.pre[alast.ptr].state = "live"
    /\ alast.size # alast.pre[alast.ptr].size
    /\ IsPow2(alast.align)
    /\ Len(alast.viol) = 1

\* what C12 says of every call of __rust_alloc / __rust_alloc_zeroed but the
\* result of a valid call
AllocViolations ==
    LET bad == alast.size = 0 \/ ~IsPow2(alast.align)
    IN  /\ (alast.viol # <<>>) <=> bad
        /\ bad => /\ ~HasEvent("malloc") /\ ~HasEvent("calloc")
                  /\ heap = alast.pre
                  /\ alast.result = NoRet
                  /\ astatus = "pruned"

\* the result is a handle of exactly size bytes, zero if zeroed
FreshBlock(h, size, zeroed) ==
    /\ h \in Handles
    /\ alast.pre[h].state = "unused"
    /\ heap[h].state = "live"
    /\ heap[h].size = size
    /\ Len(heap[h].bytes) = size
    /\ zeroed => \A i \in 1..size : heap[h].bytes[i] = 0
    /\ \A g \in Handles \ {h} : heap[g] = alast.pre[g]

\* C12 as stated: a violation is reported exactly when size == 0 or align is
\* not a nonzero power of two, a violating call never reaches the allocator,
\* and a valid call returns a handle of exactly size bytes (zero bytes for
\* __rust_alloc_zeroed).
C12_AllocAlwaysHandle ==
    (alast.op \in {"alloc", "alloc_zeroed"}) =>
        /\ AllocViolations
        /\ (alast.size > 0 /\ IsPow2(alast.align)) =>
              FreshBlock(alast.result, alast.size, alast.op = "alloc_zeroed")

\* C12 amended: ... and a valid call returns what malloc / calloc returns: a
\* handle of exactly size bytes (zero bytes for __rust_alloc_zeroed), or null
\* with the heap unchanged when the underlying allocation fails.
C12_AllocHandleOrNull ==
    (alast.op \in {"alloc", "alloc_zeroed"}) =>
        /\ AllocViolations
        /\ (alast.size > 0 /\ IsPow2(alast.align)) =>
              /\ astatus = "ok"
              /\ \/ FreshBlock(alast.result, alast.size, alast.op = "alloc_zeroed")
                 \/ alast.result = NULL /\ heap = alast.pre

\* C12 witness: a valid __rust_alloc_zeroed returned a block of more than
\* one byte.
C12_Witness ==
    /\ alast.op = "alloc_zeroed"
    /\ alast.size > 1
    /\ alast.result \in Handles
    /\ heap[alast.result].state = "live"

\* C13: __rust_realloc of a live handle with new_size > 0, when malloc
\* succeeds, returns a new handle of new_size bytes whose first
\* min(old_size, new_size) bytes are those of the original block, the
\* original handle is released and no other handle is affected.
C13_ReallocCopies ==
    (/\ alast.op = "realloc"
     /\ alast.ptr # NULL
     /\ alast.pre[alast.ptr].state = "live"
     /\ alast.new_size > 0
     /\ HasEvent("malloc") /\ alast.ok) =>
        LET old == alast.pre[alast.ptr]
            n == IF alast.new_size < alast.size THEN alast.new_size ELSE alast.size
        IN  /\ astatus = "ok"
            /\ alast.result \in Handles \ {alast.ptr}
            /\ alast.pre[alast.result].state = "unused"
            /\ heap[alast.result].state = "live"
            /\ heap[alast.result].size = alast.new_size
            /\ \A i \in 1..n : /\ i <= Len(old.bytes)
                               /\ heap[alast.result].bytes[i] = old.bytes[i]
            /\ heap[alast.ptr].state = "freed"
            /\ \A h \in Handles \ {alast.ptr, alast.result} : heap[h] = alast.pre[h]

\* the preconditions of the last call, on its arguments
PreconditionsHold ==
    CASE alast.op \in {"alloc", "alloc_zeroed"} ->
            alast.size > 0 /\ IsPow2(alast.align)
      [] alast.op = "dealloc" ->
            IsPow2(alast.align) /\ alast.pre[alast.ptr].size = alast.size
      [] alast.op = "realloc" ->
            alast.ptr # NULL /\ alast.new_size > 0 /\ IsPow2(alast.align)
      [] OTHER -> TRUE

\* the number of __KANI_assert in the function called
NumPreconditions ==
    CASE alast.op \in {"alloc", "alloc_zeroed", "dealloc"} -> 2
      [] alast.op = "realloc" -> 3
      [] OTHER -> 0

\* C19: every __KANI_assert evaluates its condition once and asserts, then
\* assumes, that value; a false condition is recorded as a violation and
\* nothing runs after its assume; so malloc, calloc, free and memcpy run
\* only after all the preconditions of the call were found to hold.
C19_AssertThenAssume ==
    LET ev == alast.events
    IN  /\ \A k \in 1..Len(ev) :
              /\ (ev[k].e = "eval") =>
                    /\ k + 2 <= Len(ev)
                    /\ ev[k + 1].e = "assert" /\ ev[k + 1].msg = ev[k].msg
                    /\ ev[k + 1].val = ev[k].val
                    /\ ev[k + 2].e = "assume" /\ ev[k + 2].msg = ev[k].msg
                    /\ ev[k + 2].val = ev[k].val
              /\ (ev[k].e = "assert") => (k > 1 /\ ev[k - 1].e = "eval")
              /\ (ev[k].e = "assume") => (k > 2 /\ ev[k - 2].e = "eval")
              /\ (ev[k].e = "assert" /\ ~ev[k].val) =>
                    /\ \E j \in 1..Len(alast.viol) : alast.viol[j] = ev[k].msg
                    /\ Len(ev) = k + 1
                    /\ astatus = "pruned"
              /\ (ev[k].e \in AllocatorCalls) =>
                    /\ Cardinality({j \in 1..(k - 1) : ev[j].e = "eval"})
                          = NumPreconditions
                    /\ \A j \in 1..(k - 1) : ev[j].e = "eval" => ev[j].val
                    /\ PreconditionsHold
                    /\ alast.viol = <<>>
        /\ (alast.viol # <<>>) => (astatus = "pruned" /\ heap = alast.pre)

\* C19 witness: the first precondition of a call held and a later one did
\* not.
C19_Witness ==
    /\ alast.op \in {"dealloc", "realloc"}
    /\ Len(alast.events) > 3
    /\ alast.viol # <<>>
    /\ astatus = "pruned"

\* C23: when the malloc inside __rust_realloc fails the call returns null,
\* reports no violation and leaves the heap, the original block with it, as
\* it was: nothing is copied and nothing is released.
C23_ReallocFailure ==
    (alast.op = "realloc" /\ HasEvent("malloc") /\ ~alast.ok) =>
        /\ alast.result = NULL
        /\ alast.viol = <<>>
        /\ astatus = "ok"
        /\ heap = alast.pre
        /\ ~HasEvent("memcpy")
        /\ ~HasEvent("free")

\* C23 witness: the malloc of a __rust_realloc of a live block failed.
C23_Witness ==
    /\ alast.op = "realloc"
    /\ HasEvent("malloc")
    /\ ~alast.ok
    /\ alast.pre[alast.ptr].state = "live"
    /\ heap[alast.ptr].state = "live"

\* C26: the number of bytes __rust_realloc copies from the original block
\* is at most the size of that block, whatever old_size and new_size are.
C26_ReallocReadsInside ==
    (alast.op = "realloc") =>
        \A k \in 1..Len(alast.events) :
            (alast.events[k].e = "memcpy") =>
                alast.events[k].val <= alast.pre[alast.ptr].size

(***************************************************************************)
(* Claims about functions on the whole size_t range, under SpecCall.       *)
(***************************************************************************)
\* C21: for every capacity <= MAX_MALLOC_SIZE and every size_t additional,
\* vec_sized_grow is fatal or sets the capacity to the unwrapped
\* max(2 * capacity, capacity + additional); it never completes with a
\* capacity below capacity + additional.
C21_GrowNoWrap ==
    (call.f = "vec_sized_grow") =>
        LET capacity == call.arg[1]
            additional == call.arg[2]
        IN  \/ call.out.st = "fatal"
            \/ /\ call.out.st = "ok"
               /\ call.out.v.capacity = Max(2 * capacity, capacity + additional)
               /\ call.out.v.capacity >= capacity + additional

C27_StubPushGrows ==
    (last.op = "push" /\ last.pre.len = last.pre.capacity) =>
        /\ status = "ok"
        /\ last.pre.len < Len(vecs[last.v].mem)
        /\ vecs[last.v].len <= vecs[last.v].capacity

====
